---- MODULE Spec2Model ----
(***************************************************************************)
(* Model of static-site/cloudfunction_auth_example.js: the identity        *)
(* resolver getUserFromRequest, the checker isUserAuthorized, the gate     *)
(* checkAuthorization and the handler exports.main.                        *)
(*                                                                         *)
(* JavaScript strings that the code parses (header values, tokens) are     *)
(* sequences of one-character strings, so startsWith and substring are     *)
(* computed.  Strings that the code only compares or copies (openid, log   *)
(* tags, messages) are TLA+ strings.  The Chinese message literals of the  *)
(* source are rendered in ASCII.  A nullable value is <<>> (null) or       *)
(* <<v>>.                                                                  *)
(***************************************************************************)
EXTENDS Integers, Sequences, FiniteSets, TLC

VARIABLES entry, event, wx, storeDocs, openidArg, pc, token, verifyOutcome,
          storeOutcome, user, authorized, verdict, response, calls, queried,
          logs, raised, prev, invocation

vars == <<entry, event, wx, storeDocs, openidArg, pc, token, verifyOutcome,
          storeOutcome, user, authorized, verdict, response, calls, queried,
          logs, raised, prev, invocation>>

(***************************** nullable values *****************************)
None == <<>>

Some(v) == <<v>>

(***************************** JS string helpers ***************************)
\* String.prototype.startsWith
StartsWith(s, p) == Len(s) >= Len(p) /\ SubSeq(s, 1, Len(p)) = p

\* String.prototype.substring(n): the characters from 0-based index n on
Substring(s, n) == SubSeq(s, n + 1, Len(s))

\* the literal 'Bearer ' of line 52
BearerPrefix == <<"B", "e", "a", "r", "e", "r", " ">>

\* the literal 7 of line 53
BearerPrefixLen == 7

(***************************** header values *******************************)
\* a JS value found in the header map: undefined, a string or a number
Undefined == [t |-> "undefined", s |-> <<>>, n |-> 0]

Str(chars) == [t |-> "string", s |-> chars, n |-> 0]

Num(i) == [t |-> "number", s |-> <<>>, n |-> i]

\* JS truthiness of a header value (operand of || on line 50)
Truthy(v) ==
    CASE v.t = "undefined" -> FALSE
      [] v.t = "string" -> Len(v.s) > 0
      [] v.t = "number" -> v.n # 0

\* a || b
Or(a, b) == IF Truthy(a) THEN a ELSE b

Tok1 == <<"t", "1">>

Tok2 == <<"t", "2">>

HeaderValues ==
    { Str(BearerPrefix \o Tok1),                     \* "Bearer t1"
      Str(BearerPrefix),                             \* "Bearer "
      Str(<<"b", "e", "a", "r", "e", "r", " ">> \o Tok1),  \* "bearer t1"
      Str(<<"T", "o", "k", "e", "n", " ">> \o Tok1), \* "Token t1"
      Str(<<"B", "e", "a", "r", "e", "r">>),         \* "Bearer"
      Str(BearerPrefix \o <<" ">> \o Tok1),          \* "Bearer  t1"
      Str(<<>>),                                     \* ""
      Num(123) }

\* the two keys the code reads, and two other casings of the same header name
HeaderKeys == {"authorization", "Authorization", "AUTHORIZATION", "AuThOrIzAtIoN"}

NoHeaders == [k \in HeaderKeys |-> Undefined]

\* event: undefined, an object without headers, or an object with a header map
EventUndefined == [defined |-> FALSE, hasHeaders |-> FALSE, headers |-> NoHeaders]

EventWithoutHeaders == [defined |-> TRUE, hasHeaders |-> FALSE, headers |-> NoHeaders]

EventWith(h) == [defined |-> TRUE, hasHeaders |-> TRUE, headers |-> h]

Events ==
    {EventUndefined, EventWithoutHeaders, EventWith(NoHeaders)}
    \cup {EventWith([NoHeaders EXCEPT ![k] = v]) : k \in HeaderKeys, v \in HeaderValues}
    \cup {EventWith([NoHeaders EXCEPT !["authorization"] = Str(<<>>),
                                      !["Authorization"] = Str(BearerPrefix \o Tok1)]),
          EventWith([NoHeaders EXCEPT !["authorization"] = Str(BearerPrefix \o Tok1),
                                      !["Authorization"] = Str(BearerPrefix \o Tok2)])}

(***************************** collaborators *******************************)
AUTHORIZED_USERS == {"oXXXXX1", "oXXXXX2"}

\* openids that occur in the inputs; "" is the empty (falsy) openid
Subjects == {"oXXXXX1", "userB", "userC"}

\* what cloud.getWXContext() does: throws, returns undefined, or an object
\* whose OPENID is "" when the platform injected none
WxOutcomes ==
    {[k |-> "throw", OPENID |-> "", APPID |-> ""],
     [k |-> "undefined", OPENID |-> "", APPID |-> ""],
     [k |-> "object", OPENID |-> "", APPID |-> ""]}
    \cup {[k |-> "object", OPENID |-> s, APPID |-> "wxapp"] : s \in Subjects}

\* what cloud.auth().verifyAccessToken(token) does: throws/rejects, resolves to
\* null, or to an object; uid "" stands for an absent uid
VerifierOutcomes ==
    {[k |-> "throw", openid |-> "", uid |-> "", appid |-> ""],
     [k |-> "null", openid |-> "", uid |-> "", appid |-> ""],
     [k |-> "object", openid |-> "", uid |-> "", appid |-> "wxapp"],
     [k |-> "object", openid |-> "userB", uid |-> "u1", appid |-> "wxapp"]}
    \cup {[k |-> "object", openid |-> s, uid |-> "", appid |-> "wxapp"] : s \in Subjects}

NoVerifierOutcome == [k |-> "none", openid |-> "", uid |-> "", appid |-> ""]

\* contents of the authorized_users collection
Doc(o, st) == [openid |-> o, status |-> st]

StoreContents ==
    { {},
      {Doc("userB", "active")},
      {Doc("userB", "revoked")},
      {Doc("userC", "active"), Doc("userB", "revoked")},
      {Doc("oXXXXX1", "revoked")} }

\* what the awaited query does: "ok" resolves to {data: [...]}, "throw" rejects,
\* "undefinedDoc" resolves to undefined, "noData" resolves to an object
\* without a data field
StoreOutcomes == {"ok", "throw", "undefinedDoc", "noData"}

\* the query without its status condition
WhereActive_AnyStatus(docs, openid) == {d \in docs : d.openid = openid}

\* .where({openid: openid, status: 'active'}).get() on a working store
WhereActive(docs, openid) ==
    {d \in docs : d.openid = openid /\ d.status = "active"}

(***************************** messages ************************************)
ReasonUnresolved == "user identity not obtained, please complete WeChat login first"

ReasonNotAuthorized(openid) == "user " \o openid \o " is not authorized to access this application"

GenericForbidden == "unauthorized access"

(***************************** getUserFromRequest *************************)
\* the identity object built on lines 40-44 and 62-66
Identity(openid, uid, appid) == [openid |-> openid, uid |-> uid, appid |-> appid]

\* result of a piece of getUserFromRequest: k = "return" (with user), "await"
\* (suspended on verifyAccessToken(token)) or "throw" (an exception leaves the
\* function); logs and calls are what the piece printed and called
Outcome(k, u, t, l, c) == [k |-> k, user |-> u, token |-> t, logs |-> l, calls |-> c]

\* lines 49-53 and 72-74: the header lookup and the Bearer test, inside the
\* outer try; a TypeError (event undefined, authHeader not a string) is k = "throw"
ParseHeader(ev) ==
    IF ~ev.defined THEN Outcome("throw", None, <<>>, <<>>, <<>>)
    ELSE LET headers == IF ev.hasHeaders THEN ev.headers ELSE NoHeaders
             authHeader == Or(Or(headers["authorization"], headers["Authorization"]),
                              Str(<<>>))
         IN  IF authHeader.t # "string" THEN Outcome("throw", None, <<>>, <<>>, <<>>)
             ELSE IF StartsWith(authHeader.s, BearerPrefix)
                  THEN Outcome("await", None,
                               Substring(authHeader.s, BearerPrefixLen), <<>>, <<>>)
                  ELSE Outcome("return", None, <<>>, <<>>, <<>>)

\* getUserFromRequest without its outer try/catch
OuterCatch_Rethrow(r) == r

\* lines 75-78: the outer catch turns an exception into a logged null
OuterCatch(r) ==
    IF r.k = "throw"
    THEN Outcome("return", None, <<>>, r.logs \o <<"getUserError">>, r.calls)
    ELSE r

\* the header is parsed before the trusted context is consulted
GetUserSync_TokenFirst(ev, w) ==
    OuterCatch(
        LET r == ParseHeader(ev)
        IN  IF r.k = "await" THEN r
            ELSE IF w.k = "throw"
                 THEN Outcome("throw", None, <<>>, <<>>, <<"getWXContext">>)
                 ELSE IF w.k = "object" /\ w.OPENID # ""
                      THEN Outcome("return", Some(Identity(w.OPENID, w.OPENID, w.APPID)),
                                   <<>>, <<>>, <<"getWXContext">>)
                      ELSE [r EXCEPT !.calls = <<"getWXContext">>])

\* lines 35-53: getUserFromRequest from its entry to its first await or return
GetUserSync(ev, w) ==
    OuterCatch(
        IF w.k = "throw"
        THEN Outcome("throw", None, <<>>, <<>>, <<"getWXContext">>)
        ELSE IF w.k = "object" /\ w.OPENID # ""
             THEN Outcome("return", Some(Identity(w.OPENID, w.OPENID, w.APPID)),
                          <<>>, <<>>, <<"getWXContext">>)
             ELSE LET r == ParseHeader(ev)
                  IN  [r EXCEPT !.calls = <<"getWXContext">>])

\* lines 58-74: getUserFromRequest from the verifier's answer to its return
GetUserResume(o) ==
    IF o.k = "throw"
    THEN Outcome("return", None, <<>>, <<"tokenError">>, <<"verifyAccessToken">>)
    ELSE IF o.k = "object" /\ o.openid # ""
         THEN Outcome("return",
                      Some(Identity(o.openid,
                                    IF o.uid # "" THEN o.uid ELSE o.openid,
                                    o.appid)),
                      <<>>, <<>>, <<"verifyAccessToken">>)
         ELSE Outcome("return", None, <<>>, <<>>, <<"verifyAccessToken">>)

(***************************** isUserAuthorized ***************************)
\* isUserAuthorized without the static short-circuit of lines 92-94
IsUserAuthorizedSync_NoStatic(openid) == IF openid = "" THEN "deny" ELSE "query"

\* lines 87-94: "deny" and "allow" return at once, "query" goes to the store
IsUserAuthorizedSync(openid) ==
    IF openid = "" THEN "deny"
    ELSE IF openid \in AUTHORIZED_USERS THEN "allow"
    ELSE "query"

\* a failed store query lets the caller in
StoreFailureFallback_Open(openid) == TRUE

\* line 110: the value returned after a failed store query
StoreFailureFallback(openid) == openid \in AUTHORIZED_USERS

\* lines 97-111: isUserAuthorized from the store's answer to its return; result
\* is the truthiness of the returned value
IsUserAuthorizedResume(openid, o, docs) ==
    CASE o = "ok" ->
           [result |-> Cardinality(WhereActive(docs, openid)) > 0, logs |-> <<>>]
      [] o = "noData" -> [result |-> FALSE, logs |-> <<>>]
      [] o \in {"throw", "undefinedDoc"} ->
           [result |-> StoreFailureFallback(openid), logs |-> <<"dbError">>]

(***************************** checkAuthorization *************************)
Verdict(a, u, e) == [authorized |-> a, user |-> u, error |-> e]

\* line 123
GateUnresolved(u) == u = None \/ u[1].openid = ""

\* the unresolved verdict tells a failed token verification apart
VerdictUnresolved_Leaky ==
    [authorized |-> FALSE, user |-> None,
     error |-> Some(IF Len(logs) > 0 /\ logs[Len(logs)] = "tokenError"
                    THEN "token verification failed" ELSE ReasonUnresolved)]

\* lines 124-128
VerdictUnresolved == Verdict(FALSE, None, Some(ReasonUnresolved))

\* the denial carries no reason
VerdictDenied_NoReason(u) == [authorized |-> FALSE, user |-> u, error |-> None]

\* lines 135-139
VerdictDenied(u) == Verdict(FALSE, u, Some(ReasonNotAuthorized(u[1].openid)))

\* lines 142-146
VerdictAllowed(u) == Verdict(TRUE, u, None)

\* lines 134-146
GateVerdict(u, ok) == IF ~ok THEN VerdictDenied(u) ELSE VerdictAllowed(u)

(***************************** exports.main *******************************)
Response(c, m, d) == [code |-> c, message |-> m, data |-> d]

\* the data field of a response: null, undefined or an array of tracks
JsNull == [t |-> "null", v |-> <<>>]

JsUndefined == [t |-> "undefined", v |-> <<>>]

JsArray(a) == [t |-> "array", v |-> a]

\* the handler rejects only when the verdict carries no user
MainRejects_NoUser(v) == ~v.authorized /\ v.user = None

\* line 156
MainRejects(v) == ~v.authorized

\* lines 157-161
RejectResponse(v) ==
    Response(403,
             IF v.error # None /\ v.error[1] # "" THEN v.error[1] ELSE GenericForbidden,
             JsNull)

TracksData == <<"track1", "track2">>

\* the fallback message of line 185
InternalError == "internal server error"

\* the message of the TypeError raised by tracks.data on line 179 when the
\* query resolved to undefined
UndefinedDataError == "Cannot read properties of undefined (reading 'data')"

\* what the awaited tracks query does: resolves to {data: [...]}, to an object
\* without data, to undefined, rejects with an Error carrying a message or an
\* empty one, or rejects with null
TracksOutcomes ==
    {[k |-> "data", msg |-> ""],
     [k |-> "noData", msg |-> ""],
     [k |-> "undefined", msg |-> ""],
     [k |-> "throw", msg |-> "db timeout"],
     [k |-> "throw", msg |-> ""],
     [k |-> "throwNull", msg |-> ""]}

\* lines 183-187: error.message, or the fallback when it is empty
ErrorResponse(msg) == Response(500, IF msg # "" THEN msg ELSE InternalError, JsNull)

\* lines 174-188: exports.main from the tracks query's answer to its end;
\* k = "throw" when error.message on line 185 is itself a TypeError
TracksResume(o) ==
    CASE o.k = "data" ->
           [k |-> "return", response |-> Some(Response(0, "success", JsArray(TracksData))),
            logs |-> <<>>]
      [] o.k = "noData" ->
           [k |-> "return", response |-> Some(Response(0, "success", JsUndefined)),
            logs |-> <<>>]
      [] o.k = "undefined" ->
           [k |-> "return", response |-> Some(ErrorResponse(UndefinedDataError)),
            logs |-> <<"tracksError">>]
      [] o.k = "throw" ->
           [k |-> "return", response |-> Some(ErrorResponse(o.msg)),
            logs |-> <<"tracksError">>]
      [] o.k = "throwNull" ->
           [k |-> "throw", response |-> None, logs |-> <<"tracksError">>]

(***************************** invocations ********************************)
\* number of invocations one behaviour runs through
MaxInvocations == 2

NoTrustedContext(w) == w.k = "undefined" \/ (w.k = "object" /\ w.OPENID = "")

HeadersOf(ev) == IF ev.defined /\ ev.hasHeaders THEN ev.headers ELSE NoHeaders

NoAuthHeader(ev) == ev.defined /\ \A k \in HeaderKeys : HeadersOf(ev)[k].t = "undefined"

\* the class of the finished invocation: a request without trusted context
\* and without any authorization header, one whose Bearer token the verifier
\* rejected, or anything else
RequestClass ==
    IF entry = "main" /\ NoTrustedContext(wx) /\ NoAuthHeader(event) THEN "noHeader"
    ELSE IF entry = "main" /\ NoTrustedContext(wx) /\ verifyOutcome.k = "throw"
         THEN "rejected"
         ELSE "other"

\* what is remembered of the previous invocation: its class and its verdict
Summary ==
    IF RequestClass = "other" THEN [cls |-> "other", verdict |-> None]
    ELSE [cls |-> RequestClass, verdict |-> verdict]

\* a fresh invocation of exports.main(ev) under trusted context w and store
\* contents docs, or of isUserAuthorized(arg)
Begin(e, ev, w, docs, arg) ==
    /\ entry' = e
    /\ event' = ev
    /\ wx' = w
    /\ storeDocs' = docs
    /\ openidArg' = arg
    /\ pc' = IF e = "main" THEN "getUser" ELSE "checker"
    /\ token' = <<>>
    /\ verifyOutcome' = NoVerifierOutcome
    /\ storeOutcome' = "none"
    /\ user' = None
    /\ authorized' = None
    /\ verdict' = None
    /\ response' = None
    /\ calls' = <<>>
    /\ queried' = <<>>
    /\ logs' = <<>>
    /\ raised' = "none"

Init ==
    /\ entry \in {"main", "isUserAuthorized"}
    /\ event \in (IF entry = "main" THEN Events ELSE {EventWithoutHeaders})
    /\ wx \in (IF entry = "main" THEN WxOutcomes
               ELSE {[k |-> "undefined", OPENID |-> "", APPID |-> ""]})
    /\ storeDocs \in StoreContents
    /\ openidArg \in (IF entry = "main" THEN {""} ELSE Subjects \cup {"", "oXXXXX2"})
    /\ pc = IF entry = "main" THEN "getUser" ELSE "checker"
    /\ token = <<>>
    /\ verifyOutcome = NoVerifierOutcome
    /\ storeOutcome = "none"
    /\ user = None
    /\ authorized = None
    /\ verdict = None
    /\ response = None
    /\ calls = <<>>
    /\ queried = <<>>
    /\ logs = <<>>
    /\ raised = "none"
    /\ prev = [cls |-> "none", verdict |-> None]
    /\ invocation = 1

\* the platform delivers the next request
NextRequest ==
    /\ pc = "done"
    /\ invocation < MaxInvocations
    /\ invocation' = invocation + 1
    /\ prev' = Summary
    /\ \/ \E ev \in Events, w \in WxOutcomes, docs \in StoreContents :
            Begin("main", ev, w, docs, "")
       \/ \E docs \in StoreContents, arg \in Subjects \cup {"", "oXXXXX2"} :
            Begin("isUserAuthorized", EventWithoutHeaders,
                  [k |-> "undefined", OPENID |-> "", APPID |-> ""], docs, arg)

\* checkAuthorization line 121 calls getUserFromRequest, which runs to its
\* first await or to its return
GetUserFromRequest ==
    /\ pc = "getUser"
    /\ LET r == GetUserSync(event, wx)
       IN  /\ calls' = calls \o r.calls
           /\ logs' = logs \o r.logs
           /\ token' = r.token
           /\ user' = r.user
           /\ raised' = (IF r.k = "throw" THEN "getUserFromRequest" ELSE "none")
           /\ pc' = CASE r.k = "await" -> "awaitVerify"
                      [] r.k = "return" -> "resolved"
                      [] r.k = "throw" -> "done"
    /\ UNCHANGED <<entry, event, wx, storeDocs, openidArg, verifyOutcome, storeOutcome,
                   authorized, verdict, response, queried, prev, invocation>>

\* line 60: the verifier answers and getUserFromRequest runs to its return
VerifyAccessToken ==
    /\ pc = "awaitVerify"
    /\ \E o \in VerifierOutcomes :
         LET r == GetUserResume(o)
         IN  /\ verifyOutcome' = o
             /\ calls' = calls \o r.calls
             /\ logs' = logs \o r.logs
             /\ user' = r.user
             /\ raised' = (IF r.k = "throw" THEN "getUserFromRequest" ELSE "none")
             /\ pc' = IF r.k = "throw" THEN "done" ELSE "resolved"
    /\ UNCHANGED <<entry, event, wx, storeDocs, openidArg, token, storeOutcome,
                   authorized, verdict, response, queried, prev, invocation>>

\* lines 123-132 and 87-94: the gate tests the identity and calls
\* isUserAuthorized, which runs to the store query or to its return; the gate
\* then stays suspended on the await of line 132
CheckAuthorization ==
    /\ pc = "resolved"
    /\ IF GateUnresolved(user)
       THEN /\ verdict' = Some(VerdictUnresolved)
            /\ authorized' = authorized
            /\ pc' = "verdict"
       ELSE LET s == IsUserAuthorizedSync(user[1].openid)
            IN  /\ verdict' = verdict
                /\ authorized' = IF s = "query" THEN None ELSE Some(s = "allow")
                /\ pc' = IF s = "query" THEN "awaitStore" ELSE "checked"
    /\ UNCHANGED <<entry, event, wx, storeDocs, openidArg, token, verifyOutcome,
                   storeOutcome, user, response, calls, queried, logs,
                   raised, prev, invocation>>

\* lines 134-146: the gate resumes after the await of line 132 with the
\* checker's result and builds the verdict
BuildVerdict ==
    /\ pc = "checked"
    /\ verdict' = Some(GateVerdict(user, authorized[1]))
    /\ pc' = "verdict"
    /\ UNCHANGED <<entry, event, wx, storeDocs, openidArg, token, verifyOutcome,
                   storeOutcome, user, authorized, response, calls, queried, logs,
                   raised, prev, invocation>>

\* isUserAuthorized(openidArg) called on its own, lines 87-94
IsUserAuthorized ==
    /\ pc = "checker"
    /\ LET s == IsUserAuthorizedSync(openidArg)
       IN  /\ authorized' = IF s = "query" THEN None ELSE Some(s = "allow")
           /\ pc' = IF s = "query" THEN "awaitStore" ELSE "done"
    /\ UNCHANGED <<entry, event, wx, storeDocs, openidArg, token, verifyOutcome,
                   storeOutcome, user, verdict, response, calls, queried, logs,
                   raised, prev, invocation>>

\* lines 98-111: the store answers and isUserAuthorized runs to its return;
\* under the gate, checkAuthorization is still suspended on line 132
StoreQuery ==
    /\ pc = "awaitStore"
    /\ \E o \in StoreOutcomes :
         LET openid == IF entry = "main" THEN user[1].openid ELSE openidArg
             r == IsUserAuthorizedResume(openid, o, storeDocs)
         IN  /\ storeOutcome' = o
             /\ calls' = calls \o <<"authorized_users.get">>
             /\ queried' = queried \o <<openid>>
             /\ logs' = logs \o r.logs
             /\ authorized' = Some(r.result)
             /\ pc' = IF entry = "main" THEN "checked" ELSE "done"
    /\ UNCHANGED <<entry, event, wx, storeDocs, openidArg, token, verifyOutcome,
                   user, verdict, response, raised, prev, invocation>>

\* lines 154-166: the handler receives the verdict; user.openid on line 166
\* is a TypeError when the verdict carries no user
Main ==
    /\ pc = "verdict"
    /\ LET v == verdict[1]
       IN  IF MainRejects(v)
           THEN /\ response' = Some(RejectResponse(v))
                /\ pc' = "done"
                /\ UNCHANGED <<logs, raised>>
           ELSE IF v.user = None
                THEN /\ raised' = "main"
                     /\ pc' = "done"
                     /\ UNCHANGED <<logs, response>>
                ELSE /\ logs' = logs \o <<"access">>
                     /\ pc' = "awaitTracks"
                     /\ UNCHANGED <<response, raised>>
    /\ UNCHANGED <<entry, event, wx, storeDocs, openidArg, token, verifyOutcome,
                   storeOutcome, user, authorized, verdict, calls, queried, prev,
                   invocation>>

\* lines 171-188: the business query answers and the handler ends
TracksQuery ==
    /\ pc = "awaitTracks"
    /\ \E o \in TracksOutcomes :
         LET r == TracksResume(o)
         IN  /\ calls' = calls \o <<"tracks.get">>
             /\ response' = r.response
             /\ logs' = logs \o r.logs
             /\ raised' = (IF r.k = "throw" THEN "main" ELSE "none")
    /\ pc' = "done"
    /\ UNCHANGED <<entry, event, wx, storeDocs, openidArg, token, verifyOutcome,
                   storeOutcome, user, authorized, verdict, queried, prev,
                   invocation>>

Next ==
    \/ GetUserFromRequest
    \/ VerifyAccessToken
    \/ CheckAuthorization
    \/ BuildVerdict
    \/ IsUserAuthorized
    \/ StoreQuery
    \/ Main
    \/ TracksQuery
    \/ NextRequest

Spec == Init /\ [][Next]_vars

(***************************** properties *********************************)
Count(seq, f) == Cardinality({i \in DOMAIN seq : seq[i] = f})

Called(f) == Count(calls, f) > 0

\* getUserFromRequest has returned in this invocation of the gate
ResolverFinished == entry = "main" /\ pc \notin {"getUser", "awaitVerify"}

\* C1: every verdict of the gate is well formed: authorized implies a user and
\* no error, not authorized implies an error; authorized with a null user
\* never occurs
VerdictWellFormed ==
    verdict # None =>
        LET v == verdict[1]
        IN  /\ v.authorized => (v.user # None /\ v.error = None)
            /\ ~v.authorized => v.error # None
            /\ ~(v.authorized /\ v.user = None)

\* an allowed verdict reached through the trusted context and the static list
VerdictWellFormedWitness ==
    /\ verdict # None
    /\ verdict[1].authorized
    /\ calls = <<"getWXContext">>
    /\ pc = "verdict"

\* C2: with a resolved non-empty subject and a store query that, if made,
\* succeeded, the verdict is authorized exactly when the subject is in
\* AUTHORIZED_USERS or the store holds an active record of it; otherwise the
\* verdict is a denial carrying the user and the not-authorized reason, which
\* differs from the unresolved reason
GateDecision ==
    (ResolverFinished /\ verdict # None /\ user # None /\ storeOutcome \in {"none", "ok"})
    => LET v == verdict[1]
           openid == user[1].openid
           listed == \/ openid \in AUTHORIZED_USERS
                     \/ \E d \in storeDocs : d.openid = openid /\ d.status = "active"
       IN  /\ openid # ""
           /\ v.authorized <=> listed
           /\ v.authorized => v = [authorized |-> TRUE, user |-> user, error |-> None]
           /\ ~v.authorized =>
                /\ v.user = user
                /\ v.error = Some(ReasonNotAuthorized(openid))
                /\ v.error # Some(ReasonUnresolved)

\* a subject outside the static list, allowed by an active store record
GateDecisionWitness ==
    /\ verdict # None
    /\ verdict[1].authorized
    /\ storeOutcome = "ok"
    /\ user[1].openid \notin AUTHORIZED_USERS
    /\ Doc(user[1].openid, "revoked") \notin storeDocs

\* C3: a store query that throws yields false / a denial, no exception, and
\* the dbError log entry, which a successful query never produces
FailClosed ==
    /\ storeOutcome = "throw" =>
         /\ \A i \in DOMAIN queried : queried[i] \notin AUTHORIZED_USERS
         /\ authorized = Some(FALSE)
         /\ (entry = "main" /\ pc # "checked") => (verdict # None /\ ~verdict[1].authorized)
         /\ ~Called("tracks.get")
         /\ raised = "none"
         /\ Count(logs, "dbError") = 1
    /\ storeOutcome = "ok" => Count(logs, "dbError") = 0

\* the store failed under the gate for a subject the verifier resolved
FailClosedWitness ==
    /\ storeOutcome = "throw"
    /\ entry = "main"
    /\ verifyOutcome.k = "object"
    /\ verdict # None
    /\ ~verdict[1].authorized
    /\ logs = <<"dbError">>

\* C4: when getWXContext supplies a non-empty OPENID, the resolver returns the
\* identity of that OPENID and verifyAccessToken is never called
TrustedContextPriority ==
    (entry = "main" /\ wx.k = "object" /\ wx.OPENID # "" /\ pc # "getUser")
    => /\ user # None
       /\ user[1].openid = wx.OPENID
       /\ ~Called("verifyAccessToken")
       /\ pc # "awaitVerify"

\* a trusted context together with a well-formed Bearer header
TrustedContextPriorityWitness ==
    /\ entry = "main"
    /\ wx.k = "object"
    /\ wx.OPENID = "userC"
    /\ event.headers["Authorization"] = Str(BearerPrefix \o Tok1)
    /\ pc = "done"

\* C5: getUserFromRequest never raises: whatever the event, the trusted
\* context accessor and the verifier do, it returns null or an identity with
\* a non-empty openid
ResolverNeverRaises ==
    /\ raised # "getUserFromRequest"
    /\ ResolverFinished => (user = None \/ user[1].openid # "")
    /\ (entry = "main" /\ pc = "done" /\ ~Called("tracks.get"))
         => (raised = "none" /\ response # None)

\* a non-string authorization value, a TypeError inside the resolver
ResolverNeverRaisesWitness ==
    /\ ResolverFinished
    /\ wx.k = "undefined"
    /\ event.headers["authorization"] = Num(123)
    /\ logs = <<"getUserError">>
    /\ user = None

\* C6: the business query runs only after an authorized verdict; a verdict
\* that is not authorized ends in the 403 response with the verdict's error
\* (or the generic message) and null data, without any business access
HandlerGating ==
    /\ (Called("tracks.get") \/ pc = "awaitTracks" \/ Count(logs, "access") > 0)
         => (verdict # None /\ verdict[1].authorized)
    /\ (entry = "main" /\ pc = "done" /\ verdict # None /\ ~verdict[1].authorized)
         => /\ response # None
            /\ response[1].code = 403
            /\ response[1].message =
                 (IF verdict[1].error # None THEN verdict[1].error[1] ELSE GenericForbidden)
            /\ response[1].data = JsNull
            /\ ~Called("tracks.get")

\* a known but unauthorized user is rejected by the handler
HandlerGatingWitness ==
    /\ entry = "main"
    /\ pc = "done"
    /\ verdict # None
    /\ ~verdict[1].authorized
    /\ verdict[1].user # None
    /\ response[1].code = 403

\* C7: of two consecutive requests without trusted context, one without
\* authorization header and one whose Bearer token the verifier rejected, the
\* verdicts are identical: not authorized, null user, the unresolved reason
UnresolvedIndistinguishable ==
    (/\ entry = "main"
     /\ pc = "done"
     /\ \/ prev.cls = "noHeader" /\ RequestClass = "rejected"
        \/ prev.cls = "rejected" /\ RequestClass = "noHeader")
    => /\ verdict = prev.verdict
       /\ verdict = Some([authorized |-> FALSE, user |-> None,
                          error |-> Some(ReasonUnresolved)])

\* a request without header followed by one with a rejected token
UnresolvedIndistinguishableWitness ==
    /\ entry = "main"
    /\ pc = "done"
    /\ prev.cls = "noHeader"
    /\ RequestClass = "rejected"
    /\ Len(token) > 0

\* the value of the only authorization-named header of the event, under any
\* casing of the key; Undefined when there is none or more than one
OnlyAuthHeader(ev) ==
    LET present == {k \in HeaderKeys : HeadersOf(ev)[k].t # "undefined"}
    IN  IF Cardinality(present) = 1
        THEN HeadersOf(ev)[CHOOSE k \in present : TRUE]
        ELSE Undefined

\* Bearer, one space, a non-empty token that does not start with a space
WellFormedBearer(v) ==
    /\ v.t = "string"
    /\ StartsWith(v.s, BearerPrefix)
    /\ Len(v.s) > Len(BearerPrefix)
    /\ v.s[Len(BearerPrefix) + 1] # " "

\* C8: without trusted context, a well-formed Bearer value under any casing
\* of the authorization key is verified, and the resolver returns the identity
\* the verifier returns for its token
HeaderKeyCaseInsensitive ==
    (ResolverFinished /\ NoTrustedContext(wx) /\ WellFormedBearer(OnlyAuthHeader(event)))
    => /\ Called("verifyAccessToken")
       /\ token = Substring(OnlyAuthHeader(event).s, Len(BearerPrefix))
       /\ (verifyOutcome.k = "object" /\ verifyOutcome.openid # "")
            => (user # None /\ user[1].openid = verifyOutcome.openid)

\* C9: a header value without the Bearer prefix, or with the prefix and an
\* empty token, is treated as absent: the resolver returns null and the
\* verifier is not called
MalformedHeaderIsAbsent ==
    (/\ ResolverFinished
     /\ NoTrustedContext(wx)
     /\ OnlyAuthHeader(event).t = "string"
     /\ \/ ~StartsWith(OnlyAuthHeader(event).s, BearerPrefix)
        \/ OnlyAuthHeader(event).s = BearerPrefix)
    => (user = None /\ ~Called("verifyAccessToken"))

\* C10: per invocation the store is queried at most once and the verifier is
\* called at most once; the store is queried only after the resolver has
\* returned an identity with a non-empty subject outside AUTHORIZED_USERS, so
\* never for an unresolved, empty or statically listed subject, and never
\* before the verifier call
CallDiscipline ==
    /\ Count(calls, "authorized_users.get") <= 1
    /\ Count(calls, "verifyAccessToken") <= 1
    /\ Len(queried) = Count(calls, "authorized_users.get")
    /\ \A i \in DOMAIN queried : queried[i] # "" /\ queried[i] \notin AUTHORIZED_USERS
    /\ (entry = "main" /\ (Called("authorized_users.get") \/ pc = "awaitStore"))
         => /\ ResolverFinished
            /\ user # None
            /\ user[1].openid # ""
            /\ user[1].openid \notin AUTHORIZED_USERS
            /\ \A i \in DOMAIN queried : queried[i] = user[1].openid
    /\ \A i, j \in DOMAIN calls :
         (calls[i] = "authorized_users.get" /\ calls[j] = "verifyAccessToken") => j < i

\* the verifier, then the store, each called once
CallDisciplineWitness ==
    /\ calls = <<"getWXContext", "verifyAccessToken", "authorized_users.get">>
    /\ queried = <<"userB">>
    /\ pc = "verdict"

====
